---- MODULE Spec2Model ----
(***************************************************************************)
(* A model of the process-isolation layer of brain-python-interface:       *)
(*   - riglib/shm.py   DataSource: the polling loop, the shared ring       *)
(*                     buffer (idx, data) and the destructive get();       *)
(*   - db/tasktrack.py Track (supervisor), runtask (worker loop),          *)
(*                     ObjProxy / FuncProxy (remote invocation on a pipe). *)
(* The two halves do not share state; SpecBuf and SpecTrack run one each.  *)
(***************************************************************************)
EXTENDS Integers, Sequences, FiniteSets, TLC

(***************************************************************************)
(* Bounds of the model.                                                    *)
(***************************************************************************)
\* max_size = bufferlen * update_freq (shm.py:23); 5000 in the repository.
Capacity == 3
\* how many samples the hardware collaborator hands out before it only
\* returns None
MaxSamples == 5

\* how many worker processes Track.runtask may spawn in one run of the model
MaxProcs == 2

\* how many sinks are registered with the sink manager (self.sinks)
NumSinks == 2
\* how many times pause() is called in one run of the model
MaxPauses == 2
\* how many commands the client of a DataSource sends in one run of the model
MaxCmds == 2

\* DataSource.slice_size (shm.py:14)
SliceSize == 2

VARIABLES
    \* ---- riglib/shm.py: DataSource ----
    idx,        \* self.idx.value: the shared write index
    data,       \* self.data: flat shared array of Capacity*SliceSize numbers
    dsstatus,   \* self.status.value: > 0 while the loop is to keep running
    stream,     \* self.stream: the Event pause() sets
    streaming,  \* local variable `streaming` of run()
    dspc,       \* position of the run() loop
    sample,     \* local variable `data` of run(): the sample just acquired
    nsamp,      \* how many samples the collaborator has produced so far
    written,    \* history: the records written since idx was last set to 0
    gets,       \* history: the get() calls made since the last write
    dslock,     \* self.lock: "free", or "run" when the loop holds it
    sinklog,    \* history: the samples each sink has been sent
    sinkfailed, \* history: the sink whose send raised (0: none did)
    npause,     \* history: how many times pause() has been called
    nflips,     \* history: how many times the loop has flipped `streaming`
    geti,       \* local variable `i` of get(), while get() holds the lock
    cmd_event,  \* self.cmd_event: the Event that says a command is pending
    topipe,     \* the pipe, direction pipe.send -> _pipe.recv
    frompipe,   \* the pipe, direction _pipe.send -> pipe.recv
    clpc,       \* position of the client that sends commands
    ncmds,      \* how many commands the client has sent
    sysstate,   \* the hardware collaborator `system`: "started" or "stopped"
    \* ---- db/tasktrack.py: Track, the supervisor side ----
    status,     \* Track.status.value: the shared status register
    task,       \* Track.task: "None" or "ObjProxy"
    nprocs,     \* how many worker processes runtask has spawned
    toWorker,   \* the pipe, direction cmds.send -> _cmds.recv
    toSup,      \* the pipe, direction _cmds.send -> cmds.recv
    answered,   \* history: for each Response in toSup, the Command it answers
    wsq,        \* websock: notifications sent and not yet delivered
    suppc,      \* where the supervisor's current call stands
    op,         \* the supervisor's current call (pre: the status stoptask
                \* found on entry)
    resp,       \* the responses the current call has received
    sentlog,    \* the commands the current call has sent
    result,     \* the outcome of the current call
    \* ---- db/tasktrack.py: runtask, one worker per spawned process ----
    wpc,        \* position of the worker function
    cmd,        \* local variable `cmd`
    followup,   \* history: cmd was received in the window after an exception
    tstate,     \* task.task.state ("None" once the experiment has ended)
    exprun,     \* the experiment thread (NotifyFeat.run)
    paused,     \* task.task.pause
    wsaveid,    \* 'saveid' in kwargs
    cleaned,    \* how many times task.cleanup() has run
    left        \* history: how the worker function left its dispatch loop

dsvars == <<idx, data, dsstatus, stream, streaming, dspc, sample, nsamp,
            written, gets, dslock, sinklog, sinkfailed, npause, nflips,
            geti, cmd_event, topipe, frompipe, clpc, ncmds, sysstate>>

trvars == <<status, task, nprocs, toWorker, toSup, answered, wsq, suppc, op,
            resp, sentlog, result, wpc, cmd, followup, tstate, exprun, paused,
            wsaveid, cleaned, left>>

vars == <<dsvars, trvars>>

(***************************************************************************)
(* riglib/shm.py: pure helpers.                                            *)
(***************************************************************************)
\* The k-th sample of the collaborator, flattened by np.ravel: SliceSize
\* numbers, all different from those of every other sample.
Record(k) == [j \in 1..SliceSize |-> (k - 1) * SliceSize + j]

\* The k-th sample when the collaborator hands out a record of another
\* shape than its dtype declares: np.ravel gives fewer than SliceSize numbers.
Malformed(k) == [j \in 1..(SliceSize - 1) |-> 0 - k]

\* the sinks of self.sinks, in the order of the for loop of line 73
Sinks == 1..NumSinks

\* lines 73-74: the sample goes to the sinks in turn; f is the sink whose
\* send raises (0: none), and the sinks from f on are not reached
Forward(log, smp, f) ==
    [s \in Sinks |-> IF f = 0 \/ s < f THEN Append(log[s], smp) ELSE log[s]]

\* a Python slice s[lo:hi] of a list (0-based, hi exclusive)
Slice(s, lo, hi) == SubSeq(s, lo + 1, hi)

\* a write that lands one slot further on
StoreAtNext(d, i, rec) ==
    LET n == (i + 1) % Capacity
    IN  [j \in 1..Len(d) |->
            IF n * SliceSize < j /\ j <= (n + 1) * SliceSize
            THEN rec[j - n * SliceSize] ELSE d[j]]

\* self.data[i*size:(i+1)*size] = np.ravel(data)
StoreAt(d, i, rec) ==
    [j \in 1..Len(d) |->
        IF i * SliceSize < j /\ j <= (i + 1) * SliceSize
        THEN rec[j - i * SliceSize] ELSE d[j]]

\* np.array(data).reshape((-1,) + slice_shape): the flat list cut into
\* records; when the length is no multiple of the record size the reshape
\* raises, the except prints, and the flat list is what remains.
Reshape(flat) ==
    IF Len(flat) % SliceSize = 0
    THEN [k \in 1..(Len(flat) \div SliceSize) |->
            Slice(flat, (k - 1) * SliceSize, k * SliceSize)]
    ELSE flat

\* line 93 of get(): i = (self.idx.value % self.max_size) * self.slice_size
SliceStart(ix) == (ix % Capacity) * SliceSize

\* get() with the two parts of a wrapped buffer stitched in array order
GetRegionWrongOrder(i, ix, d) ==
    IF ix > Capacity THEN Slice(d, 0, i) \o Slice(d, i, Len(d))
    ELSE Slice(d, 0, i)

\* lines 94-97 of get(): the region of the array that get() returns, for
\* the i of line 93 and the index read at line 94
GetRegion(i, ix, d) ==
    IF ix > Capacity THEN Slice(d, i, Len(d)) \o Slice(d, 0, i)
    ELSE Slice(d, 0, i)

\* a reply of the loop to a command: the value dispatched, or the exception
\* the dispatch raised, carried as data
DSValue == [kind |-> "val", v |-> "ret"]
DSError == [kind |-> "exc", v |-> "Exception"]

\* a loop whose command dispatch lets an exception through
AfterDispatchPropagates(r) == IF r.kind = "exc" THEN "died" ELSE "clear"

\* lines 49-60: where the loop stands after the dispatch that gave r: the
\* except of line 55 takes every Exception, so it goes on to the send and
\* the clear, whatever r is
AfterDispatch(r) == "clear"

(***************************************************************************)
(* riglib/shm.py: DataSource.run, the polling loop.                        *)
(***************************************************************************)
\* a loop that starts with streaming off
StartStreamingOff == FALSE

\* line 42: streaming = True, the value the loop starts with
StartStreaming == TRUE

\* a toggle that stops the collaborator on resume and starts it on pause
SystemAfterToggleSwapped(nowStreaming) ==
    IF nowStreaming THEN "stopped" ELSE "started"

\* lines 65-69: system.start() when streaming was turned on, system.stop()
\* when it was turned off
SystemAfterToggle(nowStreaming) ==
    IF nowStreaming THEN "started" ELSE "stopped"

InitDS ==
    /\ idx = 0
    /\ data = [j \in 1..(Capacity * SliceSize) |-> 0]
    /\ dsstatus = 1
    /\ stream = FALSE
    /\ streaming = StartStreaming
    /\ dspc = "while"
    /\ sample = <<>>
    /\ nsamp = 0
    /\ written = <<>>
    /\ gets = <<>>
    /\ dslock = "free"
    /\ sinklog = [s \in Sinks |-> <<>>]
    /\ sinkfailed = 0
    /\ npause = 0
    /\ nflips = 0
    /\ geti = 0
    /\ cmd_event = FALSE
    /\ topipe = <<>>
    /\ frompipe = <<>>
    /\ clpc = "idle"
    /\ ncmds = 0
    /\ sysstate = "started"       \* line 41: system.start()

reader == <<gets, geti>>
client == <<topipe, frompipe, clpc, ncmds>>
sinkvars == <<sinklog, sinkfailed>>
pauses == <<npause, nflips>>

\* line 45: while self.status.value > 0, and line 46: if
\* self.cmd_event.is_set(); lines 88-89 after the loop, with system.stop()
LoopTest ==
    /\ dspc = "while"
    /\ dspc' = IF dsstatus <= 0 THEN "done"
               ELSE IF cmd_event THEN "service" ELSE "toggle"
    /\ sysstate' = IF dsstatus <= 0 THEN "stopped" ELSE sysstate
    /\ UNCHANGED <<idx, data, dsstatus, stream, streaming, sample, nsamp,
                   written, dslock, cmd_event, reader, client, sinkvars,
                   pauses>>
    /\ UNCHANGED trvars

\* lines 47-48: the loop takes the command off the pipe (it waits when none
\* is there) and acquires the lock (it waits while the lock is held)
Service ==
    /\ dspc = "service"
    /\ topipe # <<>>
    /\ dslock = "free"
    /\ topipe' = Tail(topipe)
    /\ dslock' = "run"
    /\ dspc' = "dispatch"
    /\ UNCHANGED <<idx, data, dsstatus, stream, streaming, sample, nsamp,
                   written, cmd_event, frompipe, clpc, ncmds, reader,
                   sinkvars, pauses>>
    /\ UNCHANGED sysstate
    /\ UNCHANGED trvars

\* lines 49-59: the dispatch against the collaborator, which gives a value
\* or raises; the release of the lock; the send of the reply
Dispatch ==
    /\ dspc = "dispatch"
    /\ \E r \in {DSValue, DSError} :
        /\ frompipe' = Append(frompipe, r)
        /\ dspc' = AfterDispatch(r)
    /\ dslock' = "free"
    /\ UNCHANGED <<idx, data, dsstatus, stream, streaming, sample, nsamp,
                   written, cmd_event, topipe, clpc, ncmds, reader, sinkvars,
                   pauses>>
    /\ UNCHANGED sysstate
    /\ UNCHANGED trvars

\* line 60: self.cmd_event.clear()
ClearEvent ==
    /\ dspc = "clear"
    /\ cmd_event' = FALSE
    /\ dspc' = "toggle"
    /\ UNCHANGED <<idx, data, dsstatus, stream, streaming, sample, nsamp,
                   written, dslock, reader, client, sinkvars, pauses>>
    /\ UNCHANGED sysstate
    /\ UNCHANGED trvars

\* lines 62-69: the streaming toggle; line 66 writes the index without the
\* lock
Toggle ==
    /\ dspc = "toggle"
    /\ IF stream
       THEN /\ stream' = FALSE
            /\ streaming' = ~streaming
            /\ nflips' = nflips + 1
            /\ sysstate' = SystemAfterToggle(~streaming)
            /\ IF ~streaming
               THEN idx' = 0 /\ written' = <<>>
               ELSE UNCHANGED <<idx, written>>
       ELSE UNCHANGED <<stream, streaming, idx, written, nflips, sysstate>>
    /\ dspc' = "acquire"
    /\ UNCHANGED <<data, dsstatus, sample, nsamp, dslock, cmd_event, npause,
                   reader, client, sinkvars>>
    /\ UNCHANGED trvars

\* lines 71-74 and 85-86: data = system.get() and its forwarding to the
\* sinks, or the sleep when paused. The send to a sink is not inside a try:
\* when it raises, run() ends with that exception and the process with it.
\* A None is sent to the sinks like a sample; sinklog keeps the samples only.
Acquire ==
    /\ dspc = "acquire"
    /\ IF streaming
       THEN \E f \in 0..NumSinks :
            /\ sinkfailed' = f
            /\ \/ /\ nsamp < MaxSamples
                  /\ nsamp' = nsamp + 1
                  /\ \E smp \in {Record(nsamp + 1), Malformed(nsamp + 1)} :
                        /\ sample' = smp
                        /\ sinklog' = Forward(sinklog, smp, f)
                  /\ dspc' = IF f = 0 THEN "write" ELSE "died"
               \/ /\ sample' = <<>>          \* system.get() returned None
                  /\ dspc' = IF f = 0 THEN "while" ELSE "died"
                  /\ UNCHANGED <<nsamp, sinklog>>
       ELSE /\ dspc' = "while"
            /\ UNCHANGED <<sample, nsamp, sinklog, sinkfailed>>
    /\ UNCHANGED <<idx, data, dsstatus, stream, streaming, written, dslock,
                   cmd_event, reader, client, pauses>>
    /\ UNCHANGED sysstate
    /\ UNCHANGED trvars

\* lines 76-84: the write into the ring buffer, under the lock. The slice
\* assignment of line 80 raises when the sample has not SliceSize numbers
\* (a ctypes array takes only a sequence of the same size): nothing is
\* stored, the bare except of line 83 prints the sample, and the release of
\* line 82 is skipped, so the loop goes on holding the lock.
Write ==
    /\ dspc = "write"
    /\ dslock = "free"
    /\ IF Len(sample) = SliceSize
       THEN /\ data' = StoreAt(data, idx % Capacity, sample)
            /\ idx' = idx + 1
            /\ written' = Append(written, sample)
            /\ gets' = <<>>
            /\ UNCHANGED dslock
       ELSE /\ dslock' = "run"
            /\ UNCHANGED <<data, idx, written, gets>>
    /\ dspc' = "while"
    /\ UNCHANGED <<dsstatus, stream, streaming, sample, nsamp, geti,
                   cmd_event, client, sinkvars, pauses>>
    /\ UNCHANGED sysstate
    /\ UNCHANGED trvars

(***************************************************************************)
(* riglib/shm.py: the client side of a DataSource.                         *)
(***************************************************************************)
\* lines 92-93 of get(): the lock is acquired (get() waits while it is held)
\* and i is computed from the index
GetBegin ==
    /\ dslock = "free"
    /\ dslock' = "get"
    /\ geti' = SliceStart(idx)
    /\ UNCHANGED <<idx, data, dsstatus, stream, streaming, dspc, sample,
                   nsamp, written, gets, cmd_event, client, sinkvars, pauses>>
    /\ UNCHANGED sysstate
    /\ UNCHANGED trvars

\* lines 94-107 of get(), with self.filter = None: the index is read again
\* for the test of line 94, the region is cut out, the index is reset and
\* the lock released
GetEnd ==
    /\ dslock = "get"
    /\ gets' = (IF Len(gets) = 2 THEN Tail(gets) ELSE gets) \o
               << [ret |-> Reshape(GetRegion(geti, idx, data)),
                   buffered |-> written] >>
    /\ idx' = 0
    /\ written' = <<>>
    /\ dslock' = "free"
    /\ geti' = 0
    /\ UNCHANGED <<data, dsstatus, stream, streaming, dspc, sample, nsamp,
                   cmd_event, client, sinkvars, pauses>>
    /\ UNCHANGED sysstate
    /\ UNCHANGED trvars

\* lines 109-110
Pause ==
    /\ npause < MaxPauses
    /\ npause' = npause + 1
    /\ stream' = TRUE
    /\ UNCHANGED <<idx, data, dsstatus, streaming, dspc, sample, nsamp,
                   written, dslock, cmd_event, nflips, reader, client,
                   sinkvars>>
    /\ UNCHANGED sysstate
    /\ UNCHANGED trvars

\* lines 112-113
Stop ==
    /\ dsstatus > 0
    /\ dsstatus' = -1
    /\ UNCHANGED <<idx, data, stream, streaming, dspc, sample, nsamp,
                   written, dslock, cmd_event, reader, client, sinkvars,
                   pauses>>
    /\ UNCHANGED sysstate
    /\ UNCHANGED trvars

\* a client that sets the flag first and has not sent the command yet
ClientSendFlagFirst(c) ==
    /\ clpc = "idle"
    /\ ncmds < MaxCmds
    /\ ncmds' = ncmds + 1
    /\ cmd_event' = TRUE
    /\ clpc' = "sent"
    /\ UNCHANGED <<idx, data, dsstatus, stream, streaming, dspc, sample,
                   nsamp, written, dslock, topipe, frompipe, reader,
                   sinkvars, pauses>>
    /\ UNCHANGED sysstate
    /\ UNCHANGED trvars

\* line 122, and the call of a FuncProxy (line 120) on the same pipe: the
\* client sends a command, ("getattr", (attr,), {}) or (name, args, kwargs)
ClientSend(c) ==
    /\ clpc = "idle"
    /\ ncmds < MaxCmds
    /\ ncmds' = ncmds + 1
    /\ topipe' = Append(topipe, c)
    /\ clpc' = "sent"
    /\ UNCHANGED <<idx, data, dsstatus, stream, streaming, dspc, sample,
                   nsamp, written, dslock, cmd_event, frompipe, reader,
                   sinkvars, pauses>>
    /\ UNCHANGED sysstate
    /\ UNCHANGED trvars

\* line 123: self.cmd_event.set()
ClientSet ==
    /\ clpc = "sent"
    /\ cmd_event' = TRUE
    /\ clpc' = "wait"
    /\ UNCHANGED <<idx, data, dsstatus, stream, streaming, dspc, sample,
                   nsamp, written, dslock, topipe, frompipe, ncmds, reader,
                   sinkvars, pauses>>
    /\ UNCHANGED sysstate
    /\ UNCHANGED trvars

\* line 124: return self.pipe.recv()
ClientRecv ==
    /\ clpc = "wait"
    /\ frompipe # <<>>
    /\ frompipe' = Tail(frompipe)
    /\ clpc' = "idle"
    /\ UNCHANGED <<idx, data, dsstatus, stream, streaming, dspc, sample,
                   nsamp, written, dslock, cmd_event, topipe, ncmds, reader,
                   sinkvars, pauses>>
    /\ UNCHANGED sysstate
    /\ UNCHANGED trvars

(***************************************************************************)
(* db/tasktrack.py: values on the wire.                                    *)
(***************************************************************************)
\* the positions 1..MaxProcs of the processes Track.runtask spawns
Procs == 1..MaxProcs

\* a Command (name, args, kwargs); kwargs is {} in every call of the file
Command(name, args) == [name |-> name, args |-> args]
\* the sentinel: NotifyFeat.run sends None down the command direction
NoneCmd == [name |-> "None", args |-> <<>>]

\* a Response: an ordinary value, or an exception object carried as data
Val(v) == [kind |-> "val", v |-> v]
Exc(v) == [kind |-> "exc", v |-> v]
\* isinstance(ret, Exception)
IsException(r) == r.kind = "exc"

\* what the Task object of the worker holds: plain attributes and methods
DataAttrs == {"saveid"}
Methods == {"end_task", "pause", "report"}
\* the names the supervisor's generic accesses and calls use
Names == {"saveid", "report"}
\* the argument lists those calls pass
ArgSets == {<<>>}

\* the text of a status register, one character per element
Chars(s) ==
    CASE s = "" -> <<>>
      [] s = "testing" -> <<"t", "e", "s", "t", "i", "n", "g">>
      [] s = "running" -> <<"r", "u", "n", "n", "i", "n", "g">>
      [] s = "testing,running" ->
            <<"t", "e", "s", "t", "i", "n", "g", ",",
              "r", "u", "n", "n", "i", "n", "g">>

\* Python's `a in b` for two strings: a is a substring of b
InString(a, b) ==
    \E k \in 0..(Len(b) - Len(a)) : SubSeq(b, k + 1, k + Len(a)) = a

\* line 57: the condition stoptask asserts
StopAssert(st) == InString(Chars(st), Chars("testing,running"))

(***************************************************************************)
(* db/tasktrack.py: ObjProxy and FuncProxy.                                *)
(***************************************************************************)
FuncProxy(name) == [kind |-> "FuncProxy", v |-> name]

\* lines 259: the Command an attribute access sends
GetattrCommand(attr) == Command("__getattr__", <<attr>>)

\* an ObjProxy that hands back whatever it received
ObjProxyResultNoProxy(attr, ret) == ret

\* lines 260-266: what ObjProxy.__getattr__ returns for the response ret
ObjProxyResult(attr, ret) ==
    IF IsException(ret) THEN FuncProxy(attr) ELSE ret

\* how a call ends: with a value handed to the caller, or with an exception
Returned(v) == [how |-> "returned", what |-> v]
Raised(v) == [how |-> "raised", what |-> v]

\* a FuncProxy that raises the exception object it received
FuncProxyOutcomeRaising(ret) ==
    IF IsException(ret) THEN Raised(ret) ELSE Returned(ret)

\* lines 274-275: how FuncProxy.__call__ ends for the response ret:
\* it returns whatever it received
FuncProxyOutcome(ret) == Returned(ret)

\* pausetask with its assignment spelt status.value
PauseTaskStatusAssigned(st, label) == label

\* line 54: the register after pausetask has taken the label: the target of
\* the assignment is status.vaue, so the register keeps what it held
PauseTaskStatus(st, label) == st

\* lines 60-66: the payload stoptask builds in its except clause
ErrorPayload == [kind |-> "payload", v |-> "error"]

NoOp == [kind |-> "none", name |-> "", args |-> <<>>, pre |-> ""]
NoResult == [how |-> "none", what |-> Val("")]

(***************************************************************************)
(* db/tasktrack.py: Track, the supervisor side.                            *)
(***************************************************************************)
InitTrack ==
    /\ status = ""
    /\ task = "None"
    /\ nprocs = 0
    /\ toWorker = <<>>
    /\ toSup = <<>>
    /\ answered = <<>>
    /\ wsq = <<>>
    /\ suppc = "idle"
    /\ op = NoOp
    /\ resp = <<>>
    /\ sentlog = <<>>
    /\ result = NoResult
    /\ wpc = [p \in Procs |-> "none"]
    /\ cmd = [p \in Procs |-> NoneCmd]
    /\ followup = [p \in Procs |-> FALSE]
    /\ tstate = [p \in Procs |-> "unbound"]
    /\ exprun = [p \in Procs |-> "no"]
    /\ paused = [p \in Procs |-> FALSE]
    /\ wsaveid = [p \in Procs |-> FALSE]
    /\ cleaned = [p \in Procs |-> 0]
    /\ left = [p \in Procs |-> "none"]

Init == InitDS /\ InitTrack

supcall == <<suppc, op, resp, sentlog, result>>
workers == <<wpc, cmd, followup, tstate, exprun, paused, wsaveid, cleaned,
             left>>

\* lines 33-48: Track.runtask. Nothing is tested before the status is set,
\* the proxy replaced and the process started.
RunTask(saveid) ==
    /\ suppc = "idle"
    /\ nprocs < MaxProcs
    /\ status' = IF saveid THEN "testing" ELSE "running"
    /\ task' = "ObjProxy"
    /\ nprocs' = nprocs + 1
    /\ wpc' = [wpc EXCEPT ![nprocs + 1] = "start"]
    /\ wsaveid' = [wsaveid EXCEPT ![nprocs + 1] = saveid]
    /\ UNCHANGED <<toWorker, toSup, answered, wsq, supcall, cmd, followup,
                   tstate,
                   exprun, paused, cleaned, left>>
    /\ UNCHANGED dsvars

\* lines 29-31: Track.notify, called by the websocket server for each message
Notify ==
    /\ wsq # <<>>
    /\ LET msg == Head(wsq)
       IN  status' = IF msg.status = "error" \/ msg.State = "stopped"
                     THEN "" ELSE status
    /\ wsq' = Tail(wsq)
    /\ UNCHANGED <<task, nprocs, toWorker, toSup, answered, supcall, workers>>
    /\ UNCHANGED dsvars

\* an access that sends its Command twice
BeginAccessPipelined(o, caught) ==
    /\ op' = o
    /\ resp' = <<>>
    /\ IF task = "None"
       THEN /\ suppc' = "ret"
            /\ result' = IF caught THEN Returned(ErrorPayload)
                         ELSE Raised(Exc("AttributeError"))
            /\ UNCHANGED <<toWorker, sentlog>>
       ELSE /\ suppc' = "getattr_recv"
            /\ toWorker' = toWorker \o <<GetattrCommand(o.name),
                                          GetattrCommand(o.name)>>
            /\ sentlog' = <<GetattrCommand(o.name)>>
            /\ UNCHANGED result

\* The first half of an access self.task.<name>: with no task it is an
\* AttributeError on None; otherwise ObjProxy.__getattr__ sends (line 259).
\* `caught` says whether the caller wraps the access in try/except Exception.
BeginAccess(o, caught) ==
    /\ op' = o
    /\ resp' = <<>>
    /\ IF task = "None"
       THEN /\ suppc' = "ret"
            /\ result' = IF caught THEN Returned(ErrorPayload)
                         ELSE Raised(Exc("AttributeError"))
            /\ UNCHANGED <<toWorker, sentlog>>
       ELSE /\ suppc' = "getattr_recv"
            /\ toWorker' = Append(toWorker, GetattrCommand(o.name))
            /\ sentlog' = <<GetattrCommand(o.name)>>
            /\ UNCHANGED result

\* lines 56-57 and 59: stoptask up to the first blocking receive
StopTask ==
    /\ suppc = "idle"
    /\ IF StopAssert(status)
       THEN BeginAccess([kind |-> "stoptask", name |-> "end_task",
                         args |-> <<>>, pre |-> status], TRUE)
       ELSE /\ op' = [kind |-> "stoptask", name |-> "end_task",
                      args |-> <<>>, pre |-> status]
            /\ suppc' = "ret"
            /\ result' = Raised(Exc("AssertionError"))
            /\ UNCHANGED <<toWorker, resp, sentlog>>
    /\ UNCHANGED <<status, task, nprocs, toSup, answered, wsq, workers>>
    /\ UNCHANGED dsvars

\* lines 53-54: pausetask up to the first blocking receive
PauseTask ==
    /\ suppc = "idle"
    /\ BeginAccess([kind |-> "pausetask", name |-> "pause", args |-> <<>>,
                    pre |-> ""], FALSE)
    /\ UNCHANGED <<status, task, nprocs, toSup, answered, wsq, workers>>
    /\ UNCHANGED dsvars

\* an attribute access self.task.<name> by any other caller of the proxy
AttrGet(name) ==
    /\ suppc = "idle"
    /\ task # "None"
    /\ BeginAccess([kind |-> "attr", name |-> name, args |-> <<>>,
                    pre |-> ""], FALSE)
    /\ UNCHANGED <<status, task, nprocs, toSup, answered, wsq, workers>>
    /\ UNCHANGED dsvars

\* a method call self.task.<name>(*args) by any other caller of the proxy
TaskCall(name, args) ==
    /\ suppc = "idle"
    /\ task # "None"
    /\ BeginAccess([kind |-> "call", name |-> name, args |-> args,
                    pre |-> ""], FALSE)
    /\ UNCHANGED <<status, task, nprocs, toSup, answered, wsq, workers>>
    /\ UNCHANGED dsvars

\* lines 260-266: ObjProxy.__getattr__ receives; then the caller goes on:
\* an attribute access is over, a call calls what it got (lines 273-274).
GetattrRecv ==
    /\ suppc = "getattr_recv"
    /\ toSup # <<>>
    /\ toSup' = Tail(toSup)
    /\ answered' = Tail(answered)
    /\ resp' = Append(resp, Head(toSup))
    /\ LET got == ObjProxyResult(op.name, Head(toSup))
       IN  IF op.kind = "attr"
           THEN /\ suppc' = "ret"
                /\ result' = Returned(got)
                /\ UNCHANGED <<toWorker, sentlog>>
           ELSE IF got.kind = "FuncProxy"
           THEN /\ suppc' = "call_recv"
                /\ toWorker' = Append(toWorker, Command(got.v, op.args))
                /\ sentlog' = Append(sentlog, Command(got.v, op.args))
                /\ UNCHANGED result
           ELSE \* the value received is called: TypeError, not callable
                /\ suppc' = "ret"
                /\ result' = IF op.kind = "stoptask"
                             THEN Returned(ErrorPayload)
                             ELSE Raised(Exc("TypeError"))
                /\ UNCHANGED <<toWorker, sentlog>>
    /\ UNCHANGED <<status, task, nprocs, wsq, op, workers>>
    /\ UNCHANGED dsvars

\* line 275: FuncProxy.__call__ receives; then the rest of the caller:
\* stoptask lines 60-71, pausetask line 54 (which assigns status.vaue, an
\* attribute nobody reads, and so leaves the register alone).
CallRecv ==
    /\ suppc = "call_recv"
    /\ toSup # <<>>
    /\ toSup' = Tail(toSup)
    /\ answered' = Tail(answered)
    /\ resp' = Append(resp, Head(toSup))
    /\ suppc' = "ret"
    /\ LET out == FuncProxyOutcome(Head(toSup))
       IN  CASE op.kind = "stoptask" /\ out.how = "returned" ->
                    /\ result' = Returned(Val(status))
                    /\ status' = ""
                    /\ task' = "None"
             [] op.kind = "stoptask" /\ out.how = "raised" ->
                    /\ result' = Returned(ErrorPayload)
                    /\ UNCHANGED <<status, task>>
             [] op.kind = "pausetask" /\ out.how = "returned" ->
                    /\ result' = Returned(Val("None"))
                    /\ status' = PauseTaskStatus(status, out.what.v)
                    /\ UNCHANGED task
             [] OTHER ->
                    /\ result' = out
                    /\ UNCHANGED <<status, task>>
    /\ UNCHANGED <<nprocs, toWorker, wsq, op, sentlog, workers>>
    /\ UNCHANGED dsvars

\* the caller takes the outcome; the supervisor is free for the next call
Return ==
    /\ suppc = "ret"
    /\ suppc' = "idle"
    /\ op' = NoOp
    /\ resp' = <<>>
    /\ sentlog' = <<>>
    /\ result' = NoResult
    /\ UNCHANGED <<status, task, nprocs, toWorker, toSup, answered, wsq,
                   workers>>
    /\ UNCHANGED dsvars

(***************************************************************************)
(* db/tasktrack.py: runtask, the worker function, and the Task it serves.  *)
(***************************************************************************)
\* line 88: the label the worker attaches to its notifications
WorkerLabel(saveid) == IF saveid THEN "running" ELSE "testing"

\* lines 94-95 and 110, 162: the notifications a worker sends
Transition(label, state) == [status |-> label, State |-> state]
ErrorMsg == [status |-> "error", State |-> ""]

\* lines 74-123: runtask up to its first receive. A failure before the try
\* (the log file of line 75 cannot be opened; the name `logging` is unbound,
\* its import at line 10 being commented out) ends the process with neither
\* a notification nor a cleanup. Otherwise task = Task(**kwargs) starts the
\* experiment thread (line 218), or the constructor raises, the bare except
\* of lines 153-164 reports the error and the function goes on to line 165
\* with `task` unbound.
WStart(p) ==
    /\ wpc[p] = "start"
    /\ \/ /\ wpc' = [wpc EXCEPT ![p] = "crashed"]
          /\ wsaveid' = [wsaveid EXCEPT ![p] = FALSE]
          /\ UNCHANGED <<tstate, exprun, wsq, left>>
       \/ /\ tstate' = [tstate EXCEPT ![p] = "go"]
          /\ exprun' = [exprun EXCEPT ![p] = "running"]
          /\ wpc' = [wpc EXCEPT ![p] = "recv"]
          /\ UNCHANGED <<wsq, wsaveid, left>>
       \/ /\ wsq' = Append(wsq, ErrorMsg)
          /\ wpc' = [wpc EXCEPT ![p] = "cleanup"]
          /\ left' = [left EXCEPT ![p] = "failed"]
          /\ UNCHANGED <<tstate, exprun, wsaveid>>
    /\ UNCHANGED <<status, task, nprocs, toWorker, toSup, answered, supcall,
                   cmd,
                   followup, paused, cleaned>>
    /\ UNCHANGED dsvars

\* the loop condition with its test of the task's state turned around
LoopContinuesInverted(c, st) == c # NoneCmd /\ st = "None"

\* line 125: the condition of the dispatch loop
LoopContinues(c, st) == c # NoneCmd /\ st # "None"

\* where the worker goes once cmd is c: into the loop body, or to line 165
AfterReceive(c, st) == IF LoopContinues(c, st) THEN "dispatch" ELSE "cleanup"

\* which half of the condition of line 125 ended the loop, if either did
HowLeft(c, st) ==
    IF LoopContinues(c, st) THEN "none"
    ELSE IF c = NoneCmd THEN "sentinel" ELSE "terminal"

\* lines 123 and 137, then line 125: cmd = _cmds.recv(), blocking, and the
\* test of the loop condition on what was received
WRecv(p) ==
    /\ wpc[p] = "recv"
    /\ toWorker # <<>>
    /\ cmd' = [cmd EXCEPT ![p] = Head(toWorker)]
    /\ followup' = [followup EXCEPT ![p] = FALSE]
    /\ toWorker' = Tail(toWorker)
    /\ wpc' = [wpc EXCEPT ![p] = AfterReceive(Head(toWorker), tstate[p])]
    /\ left' = [left EXCEPT ![p] = HowLeft(Head(toWorker), tstate[p])]
    /\ UNCHANGED <<status, task, nprocs, toSup, answered, wsq, supcall,
                   tstate, exprun,
                   paused, wsaveid, cleaned>>
    /\ UNCHANGED dsvars

\* line 133 with lines 221-235: ret = getattr(task, fn_name)(*args), and
\* line 135, the send of ret. A plain attribute fetched by __getattr__ is
\* sent; a bound method cannot be pickled by send, and a name the Task does
\* not have recurses in Task.__getattr__: both end in the except of line 143.
\* `raises`: the method called raises.
DispatchResult(c, raises, isPaused, saveid) ==
    CASE c.name = "__getattr__" ->
            IF c.args[1] \in DataAttrs
            THEN Val(IF saveid THEN "saveid" ELSE "None")
            ELSE IF c.args[1] \in Methods THEN Exc("PicklingError")
            ELSE Exc("RuntimeError")
      [] c.name \in Methods ->
            IF raises THEN Exc("Exception")
            ELSE IF c.name = "pause"
                 THEN Val(IF ~isPaused THEN "pause" ELSE "running")
            ELSE IF c.name = "end_task" THEN Val("None")
            ELSE Val("report")
      [] c.name \in DataAttrs -> Exc("TypeError")
      [] OTHER -> Exc("RuntimeError")

\* lines 128-137 and 143-146: one dispatch. The result is sent back and the
\* worker blocks for the next Command (line 137), or the exception is sent
\* back and the worker polls for a follow-up (line 147). The
\* KeyboardInterrupt branch of lines 139-142 is left out.
WDispatch(p) ==
    /\ wpc[p] = "dispatch"
    /\ \E raises \in BOOLEAN :
        /\ raises => cmd[p].name \in {"end_task", "report"}
        /\ LET r == DispatchResult(cmd[p], raises, paused[p], wsaveid[p])
           IN  /\ toSup' = Append(toSup, r)
               /\ answered' = Append(answered, cmd[p])
               /\ wpc' = [wpc EXCEPT ![p] = IF IsException(r) THEN "poll"
                                            ELSE "recv"]
        /\ paused' = [paused EXCEPT ![p] =
                        IF cmd[p].name = "pause" THEN ~paused[p]
                        ELSE paused[p]]
    \* cmd is assigned anew (lines 137, 148, 151) before it is read again
    /\ cmd' = [cmd EXCEPT ![p] = NoneCmd]
    /\ followup' = [followup EXCEPT ![p] = FALSE]
    /\ UNCHANGED <<status, task, nprocs, toWorker, wsq, supcall, tstate,
                   exprun, wsaveid, cleaned, left>>
    /\ UNCHANGED dsvars

\* the two branches of line 147 swapped: what arrives in time ends the loop
WPollRecvLeaves(p) ==
    /\ wpc[p] = "poll"
    /\ toWorker # <<>>
    /\ cmd' = [cmd EXCEPT ![p] = Head(toWorker)]
    /\ followup' = [followup EXCEPT ![p] = TRUE]
    /\ toWorker' = Tail(toWorker)
    /\ wpc' = [wpc EXCEPT ![p] = "cleanup"]
    /\ left' = [left EXCEPT ![p] = "terminal"]
    /\ UNCHANGED <<status, task, nprocs, toSup, answered, wsq, supcall,
                   tstate, exprun,
                   paused, wsaveid, cleaned>>
    /\ UNCHANGED dsvars

\* lines 147-148, then line 125: a Command arrives within the 60 seconds
WPollRecv(p) ==
    /\ wpc[p] = "poll"
    /\ toWorker # <<>>
    /\ cmd' = [cmd EXCEPT ![p] = Head(toWorker)]
    /\ followup' = [followup EXCEPT ![p] = TRUE]
    /\ toWorker' = Tail(toWorker)
    /\ wpc' = [wpc EXCEPT ![p] = AfterReceive(Head(toWorker), tstate[p])]
    /\ left' = [left EXCEPT ![p] = HowLeft(Head(toWorker), tstate[p])]
    /\ UNCHANGED <<status, task, nprocs, toSup, answered, wsq, supcall,
                   tstate, exprun,
                   paused, wsaveid, cleaned>>
    /\ UNCHANGED dsvars

\* lines 147 and 150-151, then line 125: nothing arrived in the 60 seconds
WPollTimeout(p) ==
    /\ wpc[p] = "poll"
    /\ toWorker = <<>>
    /\ cmd' = [cmd EXCEPT ![p] = NoneCmd]
    /\ followup' = [followup EXCEPT ![p] = FALSE]
    /\ wpc' = [wpc EXCEPT ![p] = AfterReceive(NoneCmd, tstate[p])]
    /\ left' = [left EXCEPT ![p] = "timeout"]
    /\ UNCHANGED <<status, task, nprocs, toWorker, toSup, answered, wsq,
                   supcall,
                   tstate, exprun, paused, wsaveid, cleaned>>
    /\ UNCHANGED dsvars

\* lines 165-167 and 237-252: task.cleanup(), which first joins the
\* experiment thread; with `task` unbound line 167 is a NameError. Either
\* way the process ends, and its memory with it.
WCleanup(p) ==
    /\ wpc[p] = "cleanup"
    /\ IF tstate[p] = "unbound"
       THEN /\ wpc' = [wpc EXCEPT ![p] = "crashed"]
            /\ UNCHANGED cleaned
       ELSE /\ exprun[p] = "exited"
            /\ wpc' = [wpc EXCEPT ![p] = "done"]
            /\ cleaned' = [cleaned EXCEPT ![p] = cleaned[p] + 1]
    /\ cmd' = [cmd EXCEPT ![p] = NoneCmd]
    /\ followup' = [followup EXCEPT ![p] = FALSE]
    /\ paused' = [paused EXCEPT ![p] = FALSE]
    /\ tstate' = [tstate EXCEPT ![p] = "unbound"]
    /\ exprun' = [exprun EXCEPT ![p] = "no"]
    /\ wsaveid' = [wsaveid EXCEPT ![p] = FALSE]
    /\ UNCHANGED <<status, task, nprocs, toWorker, toSup, answered, wsq,
                   supcall, left>>
    /\ UNCHANGED dsvars

\* lines 93-98 and 100-110: the experiment thread ends. Either its state
\* machine reaches the state None, which set_state reports as 'stopped', or
\* its run() raises and NotifyFeat.run reports the error.
ExpEnd(p) ==
    /\ exprun[p] = "running"
    /\ exprun' = [exprun EXCEPT ![p] = "finally"]
    /\ \/ /\ tstate' = [tstate EXCEPT ![p] = "None"]
          /\ wsq' = Append(wsq, Transition(WorkerLabel(wsaveid[p]),
                                           "stopped"))
       \/ /\ wsq' = Append(wsq, ErrorMsg)
          /\ UNCHANGED tstate
    /\ UNCHANGED <<status, task, nprocs, toWorker, toSup, answered, supcall,
                   wpc, cmd,
                   followup, paused, wsaveid, cleaned, left>>
    /\ UNCHANGED dsvars

\* lines 111-112: finally: cmds.send(None), the sentinel for the worker loop
ExpExit(p) ==
    /\ exprun[p] = "finally"
    /\ exprun' = [exprun EXCEPT ![p] = "exited"]
    /\ toWorker' = Append(toWorker, NoneCmd)
    /\ UNCHANGED <<status, task, nprocs, toSup, answered, wsq, supcall, wpc,
                   cmd,
                   followup, tstate, paused, wsaveid, cleaned, left>>
    /\ UNCHANGED dsvars

NextTrack ==
    \/ \E s \in BOOLEAN : RunTask(s)
    \/ Notify
    \/ StopTask
    \/ PauseTask
    \/ \E n \in Names : AttrGet(n)
    \/ \E n \in Names : \E a \in ArgSets : TaskCall(n, a)
    \/ GetattrRecv
    \/ CallRecv
    \/ Return
    \/ \E p \in Procs : WStart(p)
    \/ \E p \in Procs : WRecv(p)
    \/ \E p \in Procs : WDispatch(p)
    \/ \E p \in Procs : WPollRecv(p)
    \/ \E p \in Procs : WPollTimeout(p)
    \/ \E p \in Procs : WCleanup(p)
    \/ \E p \in Procs : ExpEnd(p)
    \/ \E p \in Procs : ExpExit(p)

SpecTrack == Init /\ [][NextTrack]_vars

\* Every process that can take a step keeps being scheduled: a worker at any
\* line of runtask, the finally clause of an experiment thread, the websocket
\* server delivering a notification, the supervisor inside a call. How long
\* an experiment runs and when the supervisor is asked for a new call are
\* left open.
FairTrack ==
    /\ SpecTrack
    /\ \A p \in Procs :
        /\ WF_vars(WStart(p))
        /\ WF_vars(WRecv(p))
        /\ WF_vars(WDispatch(p))
        /\ WF_vars(WPollRecv(p) \/ WPollTimeout(p))
        /\ WF_vars(WCleanup(p))
        /\ WF_vars(ExpExit(p))
    /\ WF_vars(Notify)
    /\ WF_vars(GetattrRecv)
    /\ WF_vars(CallRecv)
    /\ WF_vars(Return)

NextBuf ==
    \/ LoopTest
    \/ Service
    \/ Dispatch
    \/ ClearEvent
    \/ Toggle
    \/ Acquire
    \/ Write
    \/ GetBegin
    \/ GetEnd
    \/ Pause
    \/ Stop
    \/ \E c \in {"getattr", "method"} : ClientSend(c)
    \/ ClientSet
    \/ ClientRecv

SpecBuf == Init /\ [][NextBuf]_vars

\* the loop of run() and a get() in progress keep taking steps: the process
\* of the loop is scheduled, the calls of a step return, and a lock that is
\* released again and again is acquired in the end (strong fairness for the
\* two steps that wait for the lock)
FairBuf ==
    /\ SpecBuf
    /\ WF_vars(LoopTest)
    /\ SF_vars(Service)
    /\ WF_vars(Dispatch)
    /\ WF_vars(ClearEvent)
    /\ WF_vars(Toggle)
    /\ WF_vars(Acquire)
    /\ SF_vars(Write)
    /\ WF_vars(GetEnd)

(***************************************************************************)
(* Ring buffer: the claims.                                                *)
(***************************************************************************)
\* the last n elements of s (all of s when it has fewer)
LastN(s, n) == IF Len(s) > n THEN SubSeq(s, Len(s) - n + 1, Len(s)) ELSE s

\* the latest get() made since the last write
LastGet == gets[Len(gets)]

\* C1: for every N with 0 <= N <= Capacity, N records written into an empty
\* buffer and then one get() returns exactly those N records in write order.
C1_NoWrapReadsAll ==
    (gets # <<>> /\ Len(LastGet.buffered) <= Capacity)
        => LastGet.ret = LastGet.buffered

\* C2: for every N > Capacity, N records written with no read in between and
\* then get() returns exactly the last Capacity records, oldest first.
C2_WrapReadsLastCapacity ==
    (gets # <<>> /\ Len(LastGet.buffered) > Capacity)
        => LastGet.ret = LastN(LastGet.buffered, Capacity)

\* a get() after more than Capacity writes whose index is not a multiple of
\* Capacity, so that the returned region is stitched from two parts
C2_Witness ==
    /\ gets # <<>>
    /\ Len(LastGet.buffered) > Capacity
    /\ Len(LastGet.buffered) % Capacity # 0
    /\ LastGet.ret = LastN(LastGet.buffered, Capacity)

\* C3: of two get() calls with no write in between, the first returns all
\* the buffered records (the last Capacity of those written) and the second
\* returns the empty sequence.
C3_DestructiveRead ==
    Len(gets) = 2 =>
        /\ gets[1].ret = LastN(gets[1].buffered, Capacity)
        /\ gets[2].ret = <<>>

\* C16: the write of a malformed record (its flattened length is not the
\* record size) is not swallowed: the step that takes it ends the loop with
\* an error, and leaves the index and every slot as they were.
C16_MalformedWriteRaises ==
    [][(dspc = "write" /\ Len(sample) # SliceSize /\ dspc' # "write")
        => (dspc' = "died" /\ UNCHANGED <<idx, data>>)]_vars

\* C17: the failure of a sink while a sample is forwarded does not end the
\* loop.
C17_SinkFailureTolerated ==
    sinkfailed # 0 => dspc # "died"

\* C18: every sample acquired while streaming has been sent to every sink,
\* in acquisition order, and the records written to the ring buffer are among
\* those each sink has been sent.
C18_SinksSeeEverySample ==
    \A s \in Sinks :
        /\ Len(sinklog[s]) = nsamp
        /\ \A k \in 1..nsamp : sinklog[s][k] \in {Record(k), Malformed(k)}
        /\ \A i \in 1..Len(written) :
                \E k \in 1..Len(sinklog[s]) : sinklog[s][k] = written[i]

\* C19: each pause() call flips the streaming state exactly once: whenever
\* the loop has taken up every request made so far, it has flipped the state
\* as many times as pause() was called.
C19_EachPauseFlipsOnce ==
    ~stream => nflips = npause

\* a step of the producer, the loop of run(): every one moves the loop on
ProducerStep == dspc' # dspc

\* the positions of the flat array that make up slot k
SlotOf(k) == {k * SliceSize + j : j \in 1..SliceSize}

\* the step stores the sample in the slot idx mod capacity
StoredAtIndex ==
    \A j \in 1..SliceSize : data'[(idx % Capacity) * SliceSize + j] = sample[j]

\* C26 as stated: the producer never resets or decreases the index: each of
\* its steps leaves the index unchanged or adds one to it.
C26_ProducerNeverResetsIndex ==
    [][ProducerStep => (idx' = idx \/ idx' = idx + 1)]_vars

\* C26 as amended: a producer step leaves the index unchanged, adds one to
\* it, or sets it to 0 when the toggle turns streaming on again; and a step
\* that adds one has stored the record at slot index mod capacity.
C26_ProducerResetsIndexOnResumeOnly ==
    [][ProducerStep =>
        /\ \/ idx' = idx
           \/ idx' = idx + 1
           \/ (idx' = 0 /\ dspc = "toggle" /\ stream /\ ~streaming)
        /\ (idx' = idx + 1) => StoredAtIndex]_vars

\* streaming has been turned on again after a write and no get() has been
\* made since: the producer has set the index back to 0 over a record
C26_Witness ==
    /\ nflips = 2
    /\ streaming
    /\ idx = 0
    /\ data[1] # 0
    /\ gets = <<>>
    /\ dslock = "free"

\* C27: the write of a well-formed record is never held up by a full
\* buffer: whatever the index, it is enabled when the lock is free, stores
\* the record at slot index mod capacity, adds one to the index and leaves
\* every other slot as it was.
C27_WriteNeverBlocksOnFull ==
    /\ []((dspc = "write" /\ dslock = "free") => ENABLED Write)
    /\ [][(dspc = "write" /\ dspc' # "write" /\ Len(sample) = SliceSize)
            => (/\ idx' = idx + 1
                /\ StoredAtIndex
                /\ \A j \in 1..Len(data) :
                        j \notin SlotOf(idx % Capacity)
                            => data'[j] = data[j])]_vars

\* the loop has written more records than the buffer holds with no read in
\* between: the last write went over the oldest record
C27_Witness ==
    /\ Len(written) > Capacity
    /\ idx = Len(written)
    /\ dspc = "while"

\* C28: index and storage are only modified under the lock: while get()
\* holds it nothing changes them, and the i that get() computed still belongs
\* to the index it reads next.
C28_IndexAndStorageUnderLock ==
    /\ [](dslock = "get" => geti = SliceStart(idx))
    /\ [][(dslock = "get" /\ dslock' = "get")
            => UNCHANGED <<idx, data>>]_vars

\* C29: the lock is released by the step that acquired it: the loop holds it
\* only while it dispatches a command, never from one iteration to the next.
C29_LockAlwaysReleased ==
    dslock = "run" => dspc = "dispatch"

\* C30: the loop dispatches a pending command under the lock; whether the
\* dispatch gives a value or raises, the step sends exactly one reply (the
\* value, or the exception as a value) and releases the lock; the flag is
\* then cleared and the loop goes on to the rest of its iteration.
C30_CommandDispatch ==
    /\ [][(dspc = "dispatch" /\ dspc' # "dispatch")
            => (/\ dslock = "run"
                /\ dslock' = "free"
                /\ \E r \in {DSValue, DSError} :
                        frompipe' = Append(frompipe, r)
                /\ dspc' = "clear")]_vars
    /\ [][(dspc = "clear" /\ dspc' # "clear")
            => (cmd_event' = FALSE /\ dspc' = "toggle")]_vars

\* the dispatch raised: its exception is in the pipe as the reply, the lock
\* is free, the flag is cleared and the loop is at its toggle
C30_Witness ==
    /\ frompipe = <<DSError>>
    /\ dslock = "free"
    /\ ~cmd_event
    /\ dspc = "toggle"

(***************************************************************************)
(* Track, proxies and worker loop: the claims.                             *)
(***************************************************************************)
\* the supervisor's call of kind k is over and its outcome not yet taken
Finished(k) == suppc = "ret" /\ op.kind = k

\* C4: runtask called while the status is Testing or Running is rejected
\* before any worker process is spawned: no step taken from such a state
\* spawns a process.
C4_RunTaskRejectedWhileActive ==
    [][(status \in {"testing", "running"}) => (nprocs' = nprocs)]_vars

\* C5: stoptask called with an empty status register and no task fails its
\* precondition check (it raises, it does not return a value) and leaves
\* status, task proxy and channel contents unchanged.
C5_StopTaskIdleRejected ==
    [][(suppc = "idle" /\ status = "" /\ task = "None"
            /\ op'.kind = "stoptask")
        => (/\ result'.how = "raised"
            /\ UNCHANGED <<status, task, toWorker, toSup>>)]_vars

\* C6: after stoptask returns, whether the remote end_task succeeded or
\* raised, the status is Idle and the task proxy is dropped.
C6_StopTaskResets ==
    (Finished("stoptask") /\ result.how = "returned")
        => (status = "" /\ task = "None")

\* stoptask has returned after a remote end_task that raised in the worker
C6_Witness ==
    /\ Finished("stoptask")
    /\ result.how = "returned"
    /\ Len(resp) = 2
    /\ IsException(resp[2])
    /\ status = ""
    /\ task = "None"

\* the remote end_task call of a finished stoptask raised in the worker
EndTaskRaised == Finished("stoptask") /\ Len(resp) = 2 /\ IsException(resp[2])

\* C7: when the remote end_task raises inside the worker, stoptask raises
\* nothing and returns the error payload {status: "error", msg}, not the
\* previous status value.
C7_StopTaskReturnsErrorPayload ==
    EndTaskRaised => result = Returned(ErrorPayload)

\* C8: a method call through the proxy sends exactly one Command
\* (name, args, kwargs), takes one Response, and returns it if it is a value
\* but raises it if it is an exception of the remote side.
C8_CallRaisesRemoteError ==
    (Finished("call") /\ Len(resp) = 2) =>
        /\ Len(sentlog) = 2
        /\ sentlog[2] = Command(op.name, op.args)
        /\ result = IF IsException(resp[2]) THEN Raised(resp[2])
                    ELSE Returned(resp[2])

\* C9: an attribute access through the proxy sends exactly one
\* ("__getattr__", [name], {}) Command, whatever was accessed before; it
\* returns the Response unchanged when that is a value and a FuncProxy bound
\* to the name, without raising, when it is an exception.
C9_AttributeGet ==
    Finished("attr") =>
        /\ sentlog = <<GetattrCommand(op.name)>>
        /\ Len(resp) = 1
        /\ result = Returned(IF IsException(resp[1]) THEN FuncProxy(op.name)
                             ELSE resp[1])

\* an attribute access answered by an exception has returned a FuncProxy
C9_Witness ==
    /\ Finished("attr")
    /\ Len(resp) = 1
    /\ IsException(resp[1])
    /\ result = Returned(FuncProxy(op.name))

\* worker p left the dispatch loop on a non-sentinel Command that it
\* received in the window after a dispatch exception
FollowupDropped(p) ==
    wpc[p] = "cleanup" /\ followup[p] /\ cmd[p] # NoneCmd

Serving(p) == wpc[p] \in {"start", "recv", "dispatch", "poll"}

\* the supervisor waits in cmds.recv() for a Response that no process is
\* left to send: its Command lies in the pipe untaken, no Response is in
\* the pipe and no worker serves it
BlockedForever ==
    /\ suppc \in {"getattr_recv", "call_recv"}
    /\ toSup = <<>>
    /\ \E i \in 1..Len(toWorker) : toWorker[i] = sentlog[Len(sentlog)]
    /\ \A p \in Procs : ~Serving(p)

\* C11: once a worker has left its loop because the recovery window expired
\* with no follow-up, a proxy call of the supervisor fails with a transport
\* error: it is never left blocked for a Response that cannot come.
C11_CallAfterExpiryFails ==
    (\E p \in Procs : left[p] = "timeout") => ~BlockedForever

\* C12: whichever way the worker function left its loop (sentinel, terminal
\* state, window expired, construction failed), cleanup has run exactly once
\* when the function is over.
C12_CleanupExactlyOnce ==
    \A p \in Procs :
        (wpc[p] \in {"done", "crashed"} /\ left[p] # "none")
            => cleaned[p] = 1

\* C13: runtask sets the status to Testing when no save id is given and to
\* Running when persistence is requested.
C13_RunTaskStatus ==
    [][(nprocs' = nprocs + 1)
        => (status' = IF wsaveid'[nprocs'] THEN "running" ELSE "testing")]_vars

\* C14: the label the remote pause returns becomes the value of the status
\* register when pausetask returns.
C14_PauseLabelBecomesStatus ==
    (Finished("pausetask") /\ Len(resp) = 2 /\ ~IsException(resp[2]))
        => status = resp[2].v

Unanswered(p) == wpc[p] = "cleanup" /\ cmd[p] # NoneCmd

ExperimentOver(p) == exprun[p] \in {"finally", "exited"}

\* worker p is out of its dispatch loop
LoopLeft(p) == wpc[p] \in {"cleanup", "done", "crashed"}

\* C21: once the task's run has ended, the worker eventually leaves its
\* dispatch loop and starts teardown, whatever the supervisor does.
C21_EndedTaskLeavesLoop ==
    \A p \in Procs : ExperimentOver(p) ~> LoopLeft(p)

\* C22: a worker whose task construction fails sends exactly one error
\* payload to the notification sink as it fails, takes no Command off the
\* pipe and sends no Response, and its next and last step is the cleanup.
C22_ConstructionFailureGoesToCleanup ==
    [][\A p \in Procs :
        /\ (wpc[p] = "start" /\ left'[p] = "failed")
            => (/\ wsq' = Append(wsq, ErrorMsg)
                /\ wpc'[p] = "cleanup"
                /\ UNCHANGED <<toWorker, toSup>>)
        /\ (left[p] = "failed" /\ wpc'[p] # wpc[p])
            => (/\ UNCHANGED <<wsq, toWorker, toSup>>
                /\ wpc'[p] = "done"
                /\ cleaned'[p] = cleaned[p] + 1)]_vars

\* a notification that reports the worker side as ended: an error, or the
\* state 'stopped'
Terminal(msg) == msg.status = "error" \/ msg.State = "stopped"

\* C23: the delivery of a terminal notification destroys the task handle:
\* it clears the status and drops the task proxy, as stoptask does.
C23_TerminalNotificationDropsProxy ==
    [][(wsq # <<>> /\ wsq' = Tail(wsq) /\ Terminal(Head(wsq)))
        => (status' = "" /\ task' = "None")]_vars

Active == {"testing", "running"}

Outstanding == {i \in 1..Len(toWorker) : toWorker[i] # NoneCmd}

\* the Response a waiting call is about to take answers what the call sent
ResponseMatches ==
    (suppc \in {"getattr_recv", "call_recv"} /\ toSup # <<>>)
        => Head(answered) = sentlog[Len(sentlog)]

\* C25 as stated: at most one message is outstanding in the direction from
\* supervisor to worker, and each Response a call receives answers the
\* Command that call sent.
C25_OneOutstandingMessage ==
    Len(toWorker) <= 1 /\ ResponseMatches

\* C25 as amended: at most one Command of a proxy call is outstanding; the
\* sentinels of experiment threads may lie in the pipe beside it; and each
\* Response a call receives answers the Command that call sent.
C25_OneOutstandingCommand ==
    Cardinality(Outstanding) <= 1 /\ ResponseMatches

\* the Command of a waiting call and a sentinel lie in the pipe together
C25_Witness ==
    /\ Len(toWorker) = 2
    /\ Cardinality(Outstanding) = 1
    /\ suppc \in {"getattr_recv", "call_recv"}

\* C31 as stated: the loop starts with streaming off: before any pause()
\* call it acquires no sample, writes nothing to the ring buffer and forwards
\* nothing to the sinks.
C31_StartsNotStreaming ==
    (npause = 0) =>
        /\ nsamp = 0
        /\ idx = 0
        /\ \A s \in Sinks : sinklog[s] = <<>>

\* C31 as amended: the loop starts with streaming on and the collaborator
\* started: before any pause() call the toggle has not flipped, streaming is
\* on, and the collaborator stays started until the loop exits.
C31_StartsStreaming ==
    (npause = 0) =>
        /\ streaming
        /\ nflips = 0
        /\ (dspc # "done" => sysstate = "started")

\* before any pause() call a sample was acquired, written to the ring buffer
\* and forwarded to every sink
C31_Witness ==
    /\ npause = 0
    /\ nsamp > 0
    /\ idx > 0
    /\ \A s \in Sinks : sinklog[s] # <<>>

\* the step of the loop at which the streaming toggle flips
Flip == nflips' = nflips + 1

\* C32: a flip that turns streaming off stops the collaborator; a flip that
\* turns it on resets the index to 0, so that a get() that begins then
\* returns none of the records buffered before the pause, and starts the
\* collaborator; and a sample is acquired only while streaming is on and
\* the collaborator is started.
C32_ToggleStopsAndRestarts ==
    /\ [][(Flip /\ streaming) =>
            (~streaming' /\ sysstate' = "stopped" /\ idx' = idx)]_vars
    /\ [][(Flip /\ ~streaming) =>
            /\ streaming'
            /\ sysstate' = "started"
            /\ idx' = 0
            /\ GetRegion(SliceStart(idx'), idx', data') = <<>>]_vars
    /\ [][(nsamp' # nsamp) => (streaming /\ sysstate = "started")]_vars

\* streaming was turned off and on again, and a sample acquired after the
\* restart is the only one buffered, while a record of before the pause
\* still lies in the array
C32_Witness ==
    /\ nflips = 2
    /\ streaming
    /\ sysstate = "started"
    /\ nsamp >= 3
    /\ written = <<Record(nsamp)>>
    /\ idx = 1
    /\ data[SliceSize + 1] # 0

\* C33: once stop() has cleared the status, the loop comes to its exit and
\* the collaborator is stopped.
C33_StopEndsTheLoop ==
    (dsstatus <= 0) ~> (dspc = "done" /\ sysstate = "stopped")

\* C34: the label the status register holds after a runtask is the label
\* the worker spawned by it attaches to its notifications.
C34_RegisterLabelIsWorkerLabel ==
    [][(nprocs' = nprocs + 1)
        => (status' = WorkerLabel(wsaveid'[nprocs']))]_vars

\* C35: whenever a runtask on an idle register spawns a worker, the pipe is
\* empty in both directions: nothing of a previous task is left in it.
C35_PipeEmptyAtSpawn ==
    [][(nprocs' = nprocs + 1 /\ status = "")
        => (toWorker = <<>> /\ toSup = <<>>)]_vars

\* a stoptask call waits for a Response
StopTaskWaiting ==
    op.kind = "stoptask" /\ suppc \in {"getattr_recv", "call_recv"}

\* C36: every stoptask call that waits for a Response comes to its end, a
\* value returned or an exception raised.
C36_StopTaskReturns ==
    StopTaskWaiting ~> Finished("stoptask")

\* the client has sent a command and no reply to it is in the pipe
CommandPending == clpc \in {"sent", "wait"} /\ frompipe = <<>>

\* C37: the loop never exits leaving a sent command unanswered: at the step
\* that takes the loop out of its while, no command is pending.
C37_LoopNeverExitsOnPendingCommand ==
    [][(dspc # "done" /\ dspc' = "done") => ~CommandPending]_vars

\* C38: whenever the loop has seen the flag set and goes to receive, a
\* command lies in the pipe; the flag is cleared only by the loop, at line
\* 60, and the loop comes there only by the step that sent a reply.
C38_CommandThereWhenFlagSeen ==
    /\ [](dspc = "service" => topipe # <<>>)
    /\ [][(cmd_event /\ ~cmd_event') => dspc = "clear"]_vars
    /\ [][(dspc # "clear" /\ dspc' = "clear")
            => (Len(frompipe') = Len(frompipe) + 1)]_vars

\* the loop has sent the reply to a command and has not cleared the flag yet
C38_Witness ==
    /\ dspc = "clear"
    /\ cmd_event
    /\ frompipe # <<>>
    /\ clpc = "wait"

====
